---------------------------- MODULE Spec2Model ----------------------------
(***************************************************************************)
(* A model of scraper.py (Mercado Libre daily offers scraper).             *)
(*                                                                         *)
(* The parts of the program are modelled each under a specification of     *)
(* its own, over one list of variables:                                    *)
(*   SpecScrape    - scrape_offers: the page loop over OFFER_SOURCES,      *)
(*                   the deduplication by link, the final sort.            *)
(*   SpecAnalyze   - analyze_price_history, applied to snapshot lists.     *)
(*   SpecExtract   - extract_snapshots_json, applied to texts, character   *)
(*                   by character, json.loads on a JSON subset.            *)
(*   SpecPreloaded - extract_preloaded_state: the greedy pattern and       *)
(*                   json.loads on the group it matches.                   *)
(*   SpecParse     - parse_items, applied to lists of items.               *)
(*   SpecFeatured  - fetch_mercadotrack_featured, on pages of tokens.      *)
(*   SpecHistory   - fetch_price_history: the sort by date and the cap.    *)
(*   SpecTop       - fetch_top_offers_history: the loop over the first     *)
(*                   top_n offers.                                         *)
(*   SpecMain      - main: the three calls in sequence and the report;     *)
(*                   SpecMainFair adds weak fairness of its steps.         *)
(* Prices are integers; the float comparisons of the analyzer             *)
(* (x <= m * 1.05, x < avg * 0.85, r > o * 1.1) are evaluated exactly, by   *)
(* cross-multiplication.                                                   *)
(***************************************************************************)
EXTENDS Integers, Sequences, FiniteSets, TLC

VARIABLES
    \* ---- scrape_offers
    pc,            \* "loop": before a page fetch; "done": returned; "idle"
    source,        \* index into OFFER_SOURCES of the page being fetched
    page_num,      \* page number being fetched, 1..pages_per_source
    all_offers,    \* the accumulated offer list (sorted once pc = "done")
    seen_urls,     \* the set of links already appended
    fetched,       \* history: every offer parsed so far, in fetch order
    skipped,       \* history: the number of pages skipped after a failure
    added_after_skip, \* history: a page after a skipped one appended offers
    \* ---- analyze_price_history
    snapshots,     \* the snapshot list held by the caller
    has_history,   \* FALSE: the caller holds None instead of a list
    analysis,      \* the first call and the latest repeated call
    \* ---- extract_snapshots_json
    prefix,        \* the start of the text (drawn at Init)
    body,          \* the rest of the text, typed character by character
    extracted,     \* result of extract_snapshots_json(text), or pending
    \* ---- extract_preloaded_state
    state_object,  \* the JSON object assigned to the marker, <<>> if none
    assignment,    \* how the assignment is written, up to the object
    html_tail,     \* the page after the assignment, typed character by character
    preloaded,     \* result of extract_preloaded_state(html), or pending
    \* ---- parse_items
    items,         \* state["data"]["items"]
    parsed,        \* what parse_items(state) returned, once called
    \* ---- fetch_mercadotrack_featured
    mt_html,       \* the featured page, token by token
    mt_result,     \* the response met and the offers returned, once called
    \* ---- fetch_price_history
    page_snapshots, \* the snapshots on the product's page, as they arrive
    history,       \* the response met and what the function returned
    \* ---- fetch_top_offers_history
    top_pc,        \* "loop": in the loop; "done": returned; "idle"
    top_offers,    \* the list object passed as `offers`
    offers_at_call, \* history: the value of that list when it was passed
    featured,      \* the list being built
    top_log,       \* history: for each offer handled, the fetch made for it
    \* ---- main
    main_pc        \* the call main is at, "report" once the report is written

vars == <<pc, source, page_num, all_offers, seen_urls, fetched,
          skipped, added_after_skip,
          snapshots, has_history, analysis, prefix, body, extracted,
          state_object, assignment, html_tail, preloaded, items, parsed,
          mt_html, mt_result, page_snapshots, history,
          top_pc, top_offers, offers_at_call, featured, top_log, main_pc>>

scrapeVars == <<pc, source, page_num, all_offers, seen_urls, fetched,
                skipped, added_after_skip>>
analyzeVars == <<snapshots, has_history, analysis>>
extractVars == <<prefix, body, extracted>>
preloadedVars == <<state_object, assignment, html_tail, preloaded>>
parseVars == <<items, parsed>>
featuredVars == <<mt_html, mt_result>>
historyVars == <<page_snapshots, history>>
topVars == <<top_pc, top_offers, offers_at_call, featured, top_log>>
mainVars == <<main_pc>>

\* What the actions of one part leave alone: the variables of the other parts.
notScrape == <<analyzeVars, extractVars, preloadedVars, parseVars,
               featuredVars, historyVars, topVars, mainVars>>
notAnalyze == <<scrapeVars, extractVars, preloadedVars, parseVars,
                featuredVars, historyVars, topVars, mainVars>>
notExtract == <<scrapeVars, analyzeVars, preloadedVars, parseVars,
                featuredVars, historyVars, topVars, mainVars>>
notPreloaded == <<scrapeVars, analyzeVars, extractVars, parseVars,
                  featuredVars, historyVars, topVars, mainVars>>
notParse == <<scrapeVars, analyzeVars, extractVars, preloadedVars,
              featuredVars, historyVars, topVars, mainVars>>
notFeatured == <<scrapeVars, analyzeVars, extractVars, preloadedVars,
                 parseVars, historyVars, topVars, mainVars>>
notHistory == <<scrapeVars, analyzeVars, extractVars, preloadedVars,
                parseVars, featuredVars, topVars, mainVars>>
notTop == <<scrapeVars, analyzeVars, extractVars, preloadedVars, parseVars,
            featuredVars, historyVars, mainVars>>
notMain == <<scrapeVars, analyzeVars, extractVars, preloadedVars,
             parseVars, featuredVars, historyVars, topVars>>

(***************************************************************************)
(* Generic helpers                                                         *)
(***************************************************************************)
SeqsUpTo(S, n) == UNION {[1..k -> S] : k \in 0..n}

Range(s) == {s[i] : i \in 1..Len(s)}

Min2(a, b) == IF a <= b THEN a ELSE b

(***************************************************************************)
(* scrape_offers                                                           *)
(***************************************************************************)
\* Bounds of the scrape model.
MaxFetched == 4      \* offers parsed over the whole run
MaxBatch == 2        \* offers parsed from one page

\* pages_per_source: main calls scrape_offers(pages_per_source=3).
pages_per_source == 3

OFFER_SOURCES == <<"Ofertas del Dia", "Ofertas Relampago">>

\* Links, character by character: "p/MLA1", "MLA-MLA21" and "p/MLA".
Links ==
    { <<"p", "/", "M", "L", "A", "1">>,
      <<"M", "L", "A", "-", "M", "L", "A", "2", "1">>,
      <<"p", "/", "M", "L", "A">> }
Discounts == {10, 20}

\* What parse_items hands to the loop: the fields the loop and the sort read.
Offers == [link : Links, discount : Discounts]

\* The exceptions the page loop catches (lines 467-476).
PageErrors == {"HTTPError", "Timeout", "RequestException", "ValueError", "Exception"}

\* Lines 459-463: the deduplication loop over one page's offers.
RECURSIVE DedupeFrom(_, _, _, _)
DedupeFrom(offers, i, seen, new_offers) ==
    IF i > Len(offers)
    THEN [new_offers |-> new_offers, seen_urls |-> seen]
    ELSE IF offers[i].link \notin seen
         THEN DedupeFrom(offers, i + 1, seen \cup {offers[i].link},
                         Append(new_offers, offers[i]))
         ELSE DedupeFrom(offers, i + 1, seen, new_offers)

\* A plausible bug: the link is tested but never added to the seen set.
DedupeNoAdd(offers, seen) ==
    [new_offers |-> SelectSeq(offers, LAMBDA o : o.link \notin seen),
     seen_urls |-> seen]

Dedupe(offers, seen) == DedupeFrom(offers, 1, seen, <<>>)

\* list.sort(key=discount, reverse=True): stable, descending.  An element is
\* placed after every element whose key is greater than or equal to its own.
RECURSIVE InsertByDiscount(_, _)
InsertByDiscount(sorted, x) ==
    IF sorted = <<>> THEN <<x>>
    ELSE IF Head(sorted).discount >= x.discount
         THEN <<Head(sorted)>> \o InsertByDiscount(Tail(sorted), x)
         ELSE <<x>> \o sorted

\* A plausible bug: equal keys are passed over, so ties come out reversed
\* (what sorting ascending and reversing the list would give).
RECURSIVE InsertBeforeTies(_, _)
InsertBeforeTies(sorted, x) ==
    IF sorted = <<>> THEN <<x>>
    ELSE IF Head(sorted).discount > x.discount
         THEN <<Head(sorted)>> \o InsertBeforeTies(Tail(sorted), x)
         ELSE <<x>> \o sorted

RECURSIVE SortFrom(_, _, _)
SortFrom(s, i, acc) ==
    IF i > Len(s) THEN acc ELSE SortFrom(s, i + 1, InsertByDiscount(acc, s[i]))

RECURSIVE SortTiesReversedFrom(_, _, _)
SortTiesReversedFrom(s, i, acc) ==
    IF i > Len(s) THEN acc
    ELSE SortTiesReversedFrom(s, i + 1, InsertBeforeTies(acc, s[i]))

SortTiesReversed(s) == SortTiesReversedFrom(s, 1, <<>>)

\* Line 479.
SortByDiscount(s) == SortFrom(s, 1, <<>>)

LastPage == source = Len(OFFER_SOURCES) /\ page_num = pages_per_source

\* The loop header's step to the next (source, page); after the last page the
\* function sorts and returns (lines 478-482).
Advance(merged) ==
    IF LastPage
    THEN /\ pc' = "done"
         /\ all_offers' = SortByDiscount(merged)
         /\ UNCHANGED <<source, page_num>>
    ELSE /\ pc' = "loop"
         /\ all_offers' = merged
         /\ IF page_num = pages_per_source
            THEN source' = source + 1 /\ page_num' = 1
            ELSE source' = source /\ page_num' = page_num + 1

ScrapeInit ==
    /\ pc = "loop"
    /\ source = 1
    /\ page_num = 1
    /\ all_offers = <<>>
    /\ seen_urls = {}
    /\ fetched = <<>>
    /\ skipped = 0
    /\ added_after_skip = FALSE

\* Lines 454-466: the page is fetched, its state extracted and parsed into
\* `offers`; the unseen ones are appended.
PageOkWith(choices) ==
    /\ pc = "loop"
    /\ \E offers \in SeqsUpTo(choices, Min2(MaxBatch, MaxFetched - Len(fetched))) :
          LET d == Dedupe(offers, seen_urls) IN
          /\ seen_urls' = d.seen_urls
          /\ fetched' = fetched \o offers
          /\ added_after_skip' =
                (added_after_skip \/ (skipped > 0 /\ d.new_offers # <<>>))
          /\ Advance(all_offers \o d.new_offers)
    /\ UNCHANGED skipped
    /\ UNCHANGED notScrape

PageOk == PageOkWith(Offers)

\* A plausible bug: one try block around the whole loop, so that the first
\* failure ends the loop and the pages after it are never fetched.
PageFailsEndsLoop ==
    /\ pc = "loop"
    /\ \E e \in PageErrors :
          /\ pc' = "done"
          /\ all_offers' = SortByDiscount(all_offers)
          /\ skipped' = skipped + 1
          /\ UNCHANGED <<source, page_num, seen_urls, fetched, added_after_skip>>
    /\ UNCHANGED notScrape

\* Lines 467-476: any failure of fetch_page, extract_preloaded_state or
\* parse_items is logged and the page is skipped.
PageFails ==
    /\ pc = "loop"
    /\ \E e \in PageErrors :
          /\ Advance(all_offers)
          /\ skipped' = skipped + 1
          /\ UNCHANGED <<seen_urls, fetched, added_after_skip>>
    /\ UNCHANGED notScrape

ScrapeNext == PageOk \/ PageFails


(***************************************************************************)
(* analyze_price_history                                                   *)
(***************************************************************************)
\* Bound of the analyzer's inputs: a snapshot list is made of at most
\* MaxBlocks runs of equal snapshots.
MaxBlocks == 2

\* Lines 347-348: the window of recent prices.
RecentWindow == 30

BlockSizes == {1, 3, 7, 30}

\* A snapshot dict: its "price" key may be missing; when present it is a number.
SnapshotKinds ==
    {[has_price |-> FALSE, price |-> 0]} \cup
    [has_price : {TRUE}, price : {0, -100, 100, 200}]

Currents == {0, 95, 105, 106, 190}

Repeat(x, n) == [i \in 1..n |-> x]

\* A plausible bug: only positive prices are kept.
PositiveOnly(s) == s.has_price /\ s.price > 0

\* Truthiness of s.get("price") (line 338): present and not zero.
Truthy(s) == s.has_price /\ s.price # 0

\* Line 338: prices = [s.get("price", 0) for s in snapshots if s.get("price")]
PricesOf(snaps) ==
    LET kept == SelectSeq(snaps, Truthy)
    IN  [i \in 1..Len(kept) |-> kept[i].price]

RECURSIVE SumFrom(_, _, _)
SumFrom(s, i, acc) == IF i > Len(s) THEN acc ELSE SumFrom(s, i + 1, acc + s[i])

Sum(s) == SumFrom(s, 1, 0)

MinOf(s) == CHOOSE m \in Range(s) : \A x \in Range(s) : m <= x

MaxOf(s) == CHOOSE m \in Range(s) : \A x \in Range(s) : m >= x

\* A quotient a / b of the code is kept as the pair (num, den), den > 0.
Avg(s) == [num |-> Sum(s), den |-> Len(s)]

\* Lines 347-348.
RecentPrices(prices) ==
    IF Len(prices) > RecentWindow
    THEN SubSeq(prices, Len(prices) - RecentWindow + 1, Len(prices))
    ELSE prices

\* A plausible bug: the older prices are cut off a week back, not a month.
OlderPricesWeek(prices) ==
    IF Len(prices) > 7 THEN SubSeq(prices, 1, Len(prices) - 7) ELSE <<>>

OlderPrices(prices) ==
    IF Len(prices) > RecentWindow
    THEN SubSeq(prices, 1, Len(prices) - RecentWindow)
    ELSE <<>>

\* Line 350.
RecentAvg(prices) ==
    LET recent_prices == RecentPrices(prices)
    IN  IF recent_prices # <<>> THEN Avg(recent_prices) ELSE Avg(prices)

\* A plausible bug: the average of the older window is taken unguarded.
OlderAvgUnguarded(prices) == Avg(OlderPrices(prices))

\* Line 351.
OlderAvg(prices) ==
    LET older_prices == OlderPrices(prices)
    IN  IF older_prices # <<>> THEN Avg(older_prices) ELSE RecentAvg(prices)

\* A plausible bug: the boundary is excluded.
IsExcellentStrict(min_price, current_price) == current_price * 100 < min_price * 105

\* Line 354: current_price <= min_price * 1.05
IsExcellent(min_price, current_price) == current_price * 100 <= min_price * 105

\* Line 357: current_price < avg_price * 0.85
IsGood(avg_price, current_price) ==
    current_price * 100 * avg_price.den < avg_price.num * 85

\* Line 360: older_avg > 0 and recent_avg > older_avg * 1.1
IsSuspicious(older_avg, recent_avg) ==
    /\ older_avg.num > 0
    /\ recent_avg.num * older_avg.den * 10 > older_avg.num * recent_avg.den * 11

\* A plausible bug: the inflation test is made before the two price tests.
ClassifySuspiciousFirst(prices, current_price) ==
    IF IsSuspicious(OlderAvg(prices), RecentAvg(prices)) THEN "suspicious"
    ELSE IF IsExcellent(MinOf(prices), current_price) THEN "excellent"
    ELSE IF IsGood(Avg(prices), current_price) THEN "good"
    ELSE "normal"

\* Lines 354-365: the chain of branches.
Classify(prices, current_price) ==
    IF IsExcellent(MinOf(prices), current_price) THEN "excellent"
    ELSE IF IsGood(Avg(prices), current_price) THEN "good"
    ELSE IF IsSuspicious(OlderAvg(prices), RecentAvg(prices)) THEN "suspicious"
    ELSE "normal"

NoStats == [has_stats |-> FALSE, min_price |-> 0, max_price |-> 0,
            avg_price |-> [num |-> 0, den |-> 1], prices |-> <<>>]

\* Lines 333-374.  `present` is FALSE when the argument is None.
analyze_price_history(present, snaps, current_price) ==
    IF ~present \/ snaps = <<>>
    THEN [status |-> "unknown", message |-> "Sin historial", stats |-> NoStats]
    ELSE LET prices == PricesOf(snaps) IN
         IF prices = <<>>
         THEN [status |-> "unknown", message |-> "Sin datos de precio",
               stats |-> NoStats]
         ELSE LET status == Classify(prices, current_price) IN
              [status |-> status,
               message |-> CASE status = "excellent" -> "Precio minimo historico"
                             [] status = "good" -> "Buen precio vs. promedio"
                             [] status = "suspicious" ->
                                    "Precio inflado antes del descuento"
                             [] OTHER -> "Precio dentro del rango normal",
               stats |-> [has_stats |-> TRUE,
                          min_price |-> MinOf(prices),
                          max_price |-> MaxOf(prices),
                          avg_price |-> Avg(prices),
                          prices |-> prices]]

\* A plausible bug: the call filters the caller's list in place.
FilteredInPlace(snaps) == SelectSeq(snaps, Truthy)

\* The caller's list after the call: the function builds new lists (line 338,
\* the slices of lines 347-348) and assigns nothing to `snapshots`.
SnapshotsAfterCall(snaps) == snaps

\* A call: its arguments (`present` is FALSE for None) and what it returned.
NoCall == [called |-> FALSE, present |-> FALSE, snapshots |-> <<>>,
           current_price |-> 0,
           result |-> [status |-> "none", message |-> "", stats |-> NoStats]]

AnalyzeInit ==
    /\ snapshots = <<>>
    /\ has_history \in BOOLEAN
    /\ analysis = [first |-> NoCall, again |-> NoCall]

\* The number of runs of equal snapshots a list is made of.
Blocks(snaps) ==
    IF snaps = <<>> THEN 0
    ELSE 1 + Cardinality({i \in 1..(Len(snaps) - 1) : snaps[i] # snaps[i + 1]})

\* The caller's list grows by a run of n equal snapshots, different from the
\* last one it holds (before any call).
AppendBlock ==
    /\ has_history
    /\ ~analysis.first.called
    /\ \E n \in BlockSizes, s \in SnapshotKinds :
          /\ IF snapshots = <<>> THEN TRUE ELSE snapshots[Len(snapshots)] # s
          /\ Blocks(snapshots) < MaxBlocks
          /\ snapshots' = snapshots \o Repeat(s, n)
    /\ UNCHANGED <<has_history, analysis>>
    /\ UNCHANGED notAnalyze

\* The record of analyze_price_history(snapshots, current_price), called now.
CallNow(current_price) ==
    [called |-> TRUE,
     present |-> has_history,
     snapshots |-> snapshots,
     current_price |-> current_price,
     result |-> analyze_price_history(has_history, snapshots, current_price)]

\* analyze_price_history(snapshots, current_price) is called.
Analyze ==
    /\ ~analysis.first.called
    /\ \E current_price \in Currents :
          analysis' = [analysis EXCEPT !.first = CallNow(current_price)]
    /\ snapshots' = SnapshotsAfterCall(snapshots)
    /\ UNCHANGED has_history
    /\ UNCHANGED notAnalyze

\* The function is called once more on the caller's list, with the same or
\* with another current price.
AnalyzeAgain ==
    /\ analysis.first.called
    /\ \E current_price \in Currents :
          analysis' = [analysis EXCEPT !.again = CallNow(current_price)]
    /\ snapshots' = SnapshotsAfterCall(snapshots)
    /\ UNCHANGED has_history
    /\ UNCHANGED notAnalyze

AnalyzeNext == AppendBlock \/ Analyze \/ AnalyzeAgain

(***************************************************************************)
(* extract_snapshots_json                                                  *)
(*                                                                         *)
(* A text is a sequence of one-character strings.  The key "snapshots" of  *)
(* the two markers is abbreviated to the single character "s".             *)
(***************************************************************************)
\* Bound of the extractor's inputs: characters typed after the prefix.
MaxBody == 5

\* json.loads raises RecursionError, not JSONDecodeError, on arrays nested
\* deeper than the interpreter allows (about 1000 levels); the limit is scaled
\* to the texts of this model.
RecursionLimit == 2

\* Line 255: r'\"snapshots\":['
EscapedMarker == <<"\\", "\"", "s", "\\", "\"", ":", "[">>

\* Line 259: '"snapshots":['
RawMarker == <<"\"", "s", "\"", ":", "[">>

Alphabet == {"[", "]", "\"", "\\", "1", ","}

Prefixes == {<<>>, RawMarker, EscapedMarker, RawMarker \o <<"]">> \o EscapedMarker}

\* str.find: the 0-based index of the first occurrence, -1 when there is none.
Find(text, marker) ==
    LET hits == {i \in 0..(Len(text) - Len(marker)) :
                    SubSeq(text, i + 1, i + Len(marker)) = marker}
    IN  IF hits = {} THEN -1
        ELSE CHOOSE i \in hits : \A j \in hits : i <= j

\* str.replace of a two-character pattern <<a, b>> by one character r: the
\* occurrences are taken left to right, without overlap.
RECURSIVE ReplacePairFrom(_, _, _, _, _, _)
ReplacePairFrom(s, i, a, b, r, acc) ==
    IF i > Len(s) THEN acc
    ELSE IF i < Len(s) /\ s[i] = a /\ s[i + 1] = b
         THEN ReplacePairFrom(s, i + 2, a, b, r, Append(acc, r))
         ELSE ReplacePairFrom(s, i + 1, a, b, r, Append(acc, s[i]))

ReplacePair(s, a, b, r) == ReplacePairFrom(s, 1, a, b, r, <<>>)

\* A plausible bug: the two replacements are made in the other order.
UnescapeBackslashFirst(s) == ReplacePair(ReplacePair(s, "\\", "\\", "\\"), "\\", "\"", "\"")

\* Line 283: json_str.replace(r'\"', '"').replace(r'\\', '\\')
Unescape(s) == ReplacePair(ReplacePair(s, "\\", "\"", "\""), "\\", "\\", "\\")

(***************************************************************************)
(* json.loads on the JSON subset of arrays, objects, strings and integers   *)
(* written with the digit 1.  A parsed value is kept as a sequence of       *)
(* tokens: "A(" elements ")A" for an array, "O(" keys and values ")O" for   *)
(* an object, "S(" decoded characters ")S" for a string, "N(" digits ")N"   *)
(* for a number.                                                           *)
(***************************************************************************)
DecodeError(i) == [err |-> "JSONDecodeError", pos |-> i, val |-> <<>>]

RECURSIVE ParseString(_, _, _)
ParseString(s, i, acc) ==
    IF i > Len(s) THEN DecodeError(i)
    ELSE IF s[i] = "\""
         THEN [err |-> "none", pos |-> i + 1, val |-> <<"S(">> \o acc \o <<")S">>]
    ELSE IF s[i] = "\\"
         THEN IF i < Len(s) /\ s[i + 1] \in {"\"", "\\"}
              THEN ParseString(s, i + 2, Append(acc, s[i + 1]))
              ELSE DecodeError(i)
    ELSE ParseString(s, i + 1, Append(acc, s[i]))

RECURSIVE ParseNumber(_, _, _)
ParseNumber(s, i, acc) ==
    IF i <= Len(s) /\ s[i] = "1"
    THEN ParseNumber(s, i + 1, Append(acc, "1"))
    ELSE [err |-> "none", pos |-> i, val |-> <<"N(">> \o acc \o <<")N">>]

RECURSIVE ParseValue(_, _, _)
RECURSIVE ParseElements(_, _, _, _)
RECURSIVE ParseMembers(_, _, _, _)
ParseValue(s, i, depth) ==
    IF i > Len(s) THEN DecodeError(i)
    ELSE IF s[i] = "["
         THEN IF depth + 1 > RecursionLimit
              THEN [err |-> "RecursionError", pos |-> i, val |-> <<>>]
              ELSE IF i < Len(s) /\ s[i + 1] = "]"
                   THEN [err |-> "none", pos |-> i + 2, val |-> <<"A(", ")A">>]
                   ELSE ParseElements(s, i + 1, depth + 1, <<"A(">>)
    ELSE IF s[i] = "{"
         THEN IF depth + 1 > RecursionLimit
              THEN [err |-> "RecursionError", pos |-> i, val |-> <<>>]
              ELSE IF i < Len(s) /\ s[i + 1] = "}"
                   THEN [err |-> "none", pos |-> i + 2, val |-> <<"O(", ")O">>]
                   ELSE ParseMembers(s, i + 1, depth + 1, <<"O(">>)
    ELSE IF s[i] = "\"" THEN ParseString(s, i + 1, <<>>)
    ELSE IF s[i] = "1" THEN ParseNumber(s, i, <<>>)
    ELSE DecodeError(i)

ParseElements(s, i, depth, acc) ==
    LET v == ParseValue(s, i, depth) IN
    IF v.err # "none" THEN v
    ELSE IF v.pos > Len(s) THEN DecodeError(v.pos)
    ELSE IF s[v.pos] = "," THEN ParseElements(s, v.pos + 1, depth, acc \o v.val)
    ELSE IF s[v.pos] = "]"
         THEN [err |-> "none", pos |-> v.pos + 1, val |-> acc \o v.val \o <<")A">>]
    ELSE DecodeError(v.pos)

\* The members of an object from position i: a string key, a colon, a value,
\* then a comma or the closing brace.
ParseMembers(s, i, depth, acc) ==
    IF i > Len(s) \/ s[i] # "\"" THEN DecodeError(i)
    ELSE LET k == ParseString(s, i + 1, <<>>) IN
         IF k.err # "none" THEN k
         ELSE IF k.pos > Len(s) \/ s[k.pos] # ":" THEN DecodeError(k.pos)
         ELSE LET v == ParseValue(s, k.pos + 1, depth) IN
              IF v.err # "none" THEN v
              ELSE IF v.pos > Len(s) THEN DecodeError(v.pos)
              ELSE IF s[v.pos] = ","
                   THEN ParseMembers(s, v.pos + 1, depth, acc \o k.val \o v.val)
              ELSE IF s[v.pos] = "}"
                   THEN [err |-> "none", pos |-> v.pos + 1,
                         val |-> acc \o k.val \o v.val \o <<")O">>]
              ELSE DecodeError(v.pos)

\* json.loads(s): one value, then the end of the text.
JsonLoads(s) ==
    LET v == ParseValue(s, 1, 0) IN
    IF v.err = "none" /\ v.pos <= Len(s) THEN DecodeError(v.pos) ELSE v

Null == [outcome |-> "null", value |-> <<>>]

\* Lines 281-287: the candidate span is unescaped and parsed; only
\* json.JSONDecodeError is caught.
ParseCandidate(json_str) ==
    LET v == JsonLoads(Unescape(json_str)) IN
    IF v.err = "none" THEN [outcome |-> "value", value |-> v.val]
    ELSE IF v.err = "JSONDecodeError" THEN Null
    ELSE [outcome |-> "raise", value |-> <<v.err>>]

\* A plausible bug: the scan does not skip escaped characters.
RECURSIVE ScanEndNoSkip(_, _, _, _)
ScanEndNoSkip(text, start, i, depth) ==
    IF ~(i < Len(text) - start) THEN -1
    ELSE LET char == text[start + i + 1] IN
         IF char = "["
         THEN ScanEndNoSkip(text, start, i + 1, depth + 1)
         ELSE IF char = "]"
              THEN IF depth - 1 = 0
                   THEN start + i + 1
                   ELSE ScanEndNoSkip(text, start, i + 1, depth - 1)
         ELSE ScanEndNoSkip(text, start, i + 1, depth)

\* Lines 267-280 and 288-289: the depth scan from the opening bracket at
\* 0-based `start`; the 0-based end (exclusive) of the candidate span, or -1
\* when the text ends before the depth is back at zero.
RECURSIVE ScanEnd(_, _, _, _)
ScanEnd(text, start, i, depth) ==
    IF ~(i < Len(text) - start) THEN -1
    ELSE LET char == text[start + i + 1] IN
         IF char = "\\" /\ i + 1 < Len(text) - start
         THEN ScanEnd(text, start, i + 2, depth)
         ELSE IF char = "["
              THEN ScanEnd(text, start, i + 1, depth + 1)
         ELSE IF char = "]"
              THEN IF depth - 1 = 0
                   THEN start + i + 1
                   ELSE ScanEnd(text, start, i + 1, depth - 1)
         ELSE ScanEnd(text, start, i + 1, depth)

\* Lines 255-264: the 0-based position of the opening bracket, -1 when neither
\* marker occurs.  The escaped marker is looked for first.
MarkerStart(text) ==
    LET esc == Find(text, EscapedMarker)
        raw == Find(text, RawMarker)
    IN  IF esc # -1 THEN esc + Len(EscapedMarker) - 1
        ELSE IF raw # -1 THEN raw + Len(RawMarker) - 1
        ELSE -1

\* Lines 252-289.
extract_snapshots_json(text) ==
    LET start == MarkerStart(text) IN
    IF start = -1 THEN Null
    ELSE LET end == ScanEnd(text, start, 0, 0) IN
         IF end = -1 THEN Null
         ELSE ParseCandidate(SubSeq(text, start + 1, end))

Pending == [outcome |-> "pending", value |-> <<>>]

ExtractInit ==
    /\ prefix \in Prefixes
    /\ body = <<>>
    /\ extracted = Pending

\* The text handed to the extractor.
Text == prefix \o body

\* One more character of the page text.
TypeChar ==
    /\ extracted = Pending
    /\ Len(body) < MaxBody
    /\ \E c \in Alphabet : body' = Append(body, c)
    /\ UNCHANGED <<prefix, extracted>>
    /\ UNCHANGED notExtract

\* extract_snapshots_json(text) is called.
Extract ==
    /\ extracted = Pending
    /\ extracted' = extract_snapshots_json(Text)
    /\ UNCHANGED <<prefix, body>>
    /\ UNCHANGED notExtract

ExtractNext == TypeChar \/ Extract

(***************************************************************************)
(* extract_preloaded_state                                                 *)
(*                                                                         *)
(* A page is a sequence of one-character strings.  The marker              *)
(* window.__PRELOADED_STATE__ is abbreviated to the single character "W".  *)
(***************************************************************************)
\* Bound of the pages: characters typed after the assignment.
MaxTail == 3

\* Well-formed JSON objects: {"a":1}, {"a":{"a":1}}, {"}":1}, {"a":"\"};"}.
StateObjects ==
    { <<"{", "\"", "a", "\"", ":", "1", "}">>,
      <<"{", "\"", "a", "\"", ":", "{", "\"", "a", "\"", ":", "1", "}", "}">>,
      <<"{", "\"", "}", "\"", ":", "1", "}">>,
      <<"{", "\"", "a", "\"", ":", "\"", "\\", "\"", "}", ";", "\"", "}">> }

\* "W=" and "W = ": the marker, the equals sign and the white space around it.
Assignments == { <<"W", "=">>, <<"W", " ", "=", " ">> }

TailAlphabet == {"{", "}", ";", "a"}

\* The position after the white space that starts at position i (\s*).
RECURSIVE SkipSpace(_, _)
SkipSpace(html, i) ==
    IF i <= Len(html) /\ html[i] = " " THEN SkipSpace(html, i + 1) ELSE i

\* The positions of a closing brace that .+ can stop at when the group opens
\* at p: at least one character after the opening brace, a semicolon next.
GroupEnds(html, p) ==
    {q \in (p + 2)..(Len(html) - 1) : html[q] = "}" /\ html[q + 1] = ";"}

\* .+ is greedy: the group stops at the last closing brace that a semicolon
\* follows.
GreedyEnd(ends) == CHOOSE q \in ends : \A r \in ends : q >= r

\* Lines 62-66, PRELOADED_STATE_PATTERN.search(html): the group of the
\* leftmost match, as its first and last position; <<0, 0>> without a match.
PatternSearch(html) ==
    LET opens(i) == SkipSpace(html, SkipSpace(html, i + 1) + 1)
        matches == {i \in 1..Len(html) :
                       /\ html[i] = "W"
                       /\ SkipSpace(html, i + 1) <= Len(html)
                       /\ html[SkipSpace(html, i + 1)] = "="
                       /\ opens(i) <= Len(html)
                       /\ html[opens(i)] = "{"
                       /\ GroupEnds(html, opens(i)) # {}}
    IN  IF matches = {} THEN <<0, 0>>
        ELSE LET i == CHOOSE j \in matches : \A k \in matches : j <= k
             IN  <<opens(i), GreedyEnd(GroupEnds(html, opens(i)))>>

\* Lines 377-382.
extract_preloaded_state(html) ==
    LET group == PatternSearch(html) IN
    IF group = <<0, 0>> THEN [outcome |-> "raise", value |-> <<"ValueError">>]
    ELSE LET v == JsonLoads(SubSeq(html, group[1], group[2])) IN
         IF v.err = "none" THEN [outcome |-> "value", value |-> v.val]
         ELSE [outcome |-> "raise", value |-> <<v.err>>]

\* The page handed to the extractor.
Html ==
    IF state_object = <<>> THEN html_tail
    ELSE assignment \o state_object \o <<";">> \o html_tail

PreloadedInit ==
    /\ state_object \in StateObjects \cup {<<>>}
    /\ assignment \in Assignments
    /\ html_tail = <<>>
    /\ preloaded = Pending

\* One more character of the page after the assignment.
TypeTail ==
    /\ preloaded = Pending
    /\ Len(html_tail) < MaxTail
    /\ \E c \in TailAlphabet : html_tail' = Append(html_tail, c)
    /\ UNCHANGED <<state_object, assignment, preloaded>>
    /\ UNCHANGED notPreloaded

\* extract_preloaded_state(html) is called.
ExtractState ==
    /\ preloaded = Pending
    /\ preloaded' = extract_preloaded_state(Html)
    /\ UNCHANGED <<state_object, assignment, html_tail>>
    /\ UNCHANGED notPreloaded

PreloadedNext == TypeTail \/ ExtractState

(***************************************************************************)
(* parse_items                                                             *)
(*                                                                         *)
(* An item is kept by the fields the function reads.  Every value has the  *)
(* type the function expects; a key that is missing, None or empty is the  *)
(* empty string or the empty sequence (all are false in a Python test).    *)
(***************************************************************************)
\* Bound of the parser's inputs: items in the state.
MaxItems == 2

Title(text) == [type |-> "title", text |-> text, discount |-> 0, price |-> 0]

PriceComp == [type |-> "price", text |-> "", discount |-> 10, price |-> 100]

ComponentLists ==
    { <<>>, <<Title("t1")>>, <<Title("")>>,
      <<Title("t1"), Title("")>>, <<PriceComp, Title("t1")>> }

\* An item without a card (or with an empty one), and the items with a card.
Items ==
    {[card |-> FALSE, pictures |-> <<>>, url |-> "", components |-> <<>>]} \cup
    [card : {TRUE}, pictures : {<<>>, <<"">>, <<"p1">>},
     url : {"", "u1", "u2"}, components : ComponentLists]

\* Lines 392-398: the image URL from the first picture's id.
ImageUrl(pictures) ==
    IF pictures # <<>> /\ pictures[1] # ""
    THEN <<"https://http2.mlstatic.com/D_", pictures[1], "-O.jpg">>
    ELSE <<>>

\* Lines 401-403.
Link(url_path) == IF url_path # "" THEN <<"https://", url_path>> ELSE <<>>

\* Lines 406-424: the loop over the components; each title component
\* overwrites the name, each price component the discount and the price.
RECURSIVE ScanComponents(_, _, _)
ScanComponents(comps, i, acc) ==
    IF i > Len(comps) THEN acc
    ELSE IF comps[i].type = "title"
         THEN ScanComponents(comps, i + 1, [acc EXCEPT !.name = comps[i].text])
    ELSE IF comps[i].type = "price"
         THEN ScanComponents(comps, i + 1,
                 [acc EXCEPT !.discount = comps[i].discount,
                             !.price = comps[i].price])
    ELSE ScanComponents(comps, i + 1, acc)

\* A plausible bug: an item is kept without an image.
KeptWithoutImage(name, link, image_url) == name # "" /\ link # <<>>

\* Line 426: if name and link and image_url.
Kept(name, link, image_url) == name # "" /\ link # <<>> /\ image_url # <<>>

\* Lines 385-439.
RECURSIVE ParseFrom(_, _, _)
ParseFrom(its, i, acc) ==
    IF i > Len(its) THEN acc
    ELSE IF ~its[i].card THEN ParseFrom(its, i + 1, acc)
    ELSE LET image_url == ImageUrl(its[i].pictures)
             link == Link(its[i].url)
             c == ScanComponents(its[i].components, 1,
                                 [name |-> "", discount |-> 0, price |-> 0])
         IN  IF Kept(c.name, link, image_url)
             THEN ParseFrom(its, i + 1,
                     Append(acc, [name |-> c.name, link |-> link,
                                  image |-> image_url, discount |-> c.discount,
                                  price |-> c.price]))
             ELSE ParseFrom(its, i + 1, acc)

parse_items(its) == ParseFrom(its, 1, <<>>)

NotParsed == [called |-> FALSE, offers |-> <<>>]

ParseInit ==
    /\ items = <<>>
    /\ parsed = NotParsed

\* One more item in the state.
AddItem ==
    /\ ~parsed.called
    /\ Len(items) < MaxItems
    /\ \E it \in Items : items' = Append(items, it)
    /\ UNCHANGED parsed
    /\ UNCHANGED notParse

\* parse_items(state) is called.
ParseItems ==
    /\ ~parsed.called
    /\ parsed' = [called |-> TRUE, offers |-> parse_items(items)]
    /\ UNCHANGED items
    /\ UNCHANGED notParse

ParseNext == AddItem \/ ParseItems

(***************************************************************************)
(* fetch_mercadotrack_featured                                             *)
(*                                                                         *)
(* The featured page is a sequence of tokens: START is the text            *)
(* "Ofertas destacadas", END the text "Ultimos trackeados", LinkTo(id) a   *)
(* tracking link /MLA/trackings/MLA<id> (id a sequence of digits), PARA a  *)
(* paragraph that the name pattern accepts, TEXT any other text.           *)
(***************************************************************************)
\* Bound of the featured pages: tokens in the page.
MaxTokens == 4

\* The block around a link reaches 100 characters back and 2000 forward
\* (lines 126-127); the reach is scaled to tokens.
BlockBefore == 1
BlockAfter == 2

\* The ids MLA1, MLA12 and MLA2; the text of the first starts the second.
MlaIds == { <<1>>, <<1, 2>>, <<2>> }

Token(kind) == [kind |-> kind, id |-> <<>>]
START == Token("START")
END == Token("END")
PARA == Token("P")
TEXT == Token("x")
LinkTo(id) == [kind |-> "L", id |-> id]

Tokens == {START, END, PARA, TEXT} \cup {LinkTo(id) : id \in MlaIds}

\* What requests.get met: an exception, or a response with a status code.
MtErrors == {"Timeout", "RequestException"}
MtStatuses == {200, 500}

\* str.find of one token: the 0-based index of its first occurrence, or -1.
FindToken(html, t) ==
    LET hits == {i \in 0..(Len(html) - 1) : html[i + 1] = t}
    IN  IF hits = {} THEN -1 ELSE CHOOSE i \in hits : \A j \in hits : i <= j

\* html[a:b] for 0 <= a.
Slice(html, a, b) == SubSeq(html, a + 1, Min2(b, Len(html)))

\* Lines 98-106: the featured section.
FeaturedSection(html) ==
    LET featured_start == FindToken(html, START)
        featured_end == FindToken(html, END)
    IN  IF featured_end > featured_start
        THEN Slice(html, featured_start, featured_end)
        ELSE Slice(html, featured_start, Len(html))

IsLink(t) == t.kind = "L"

\* Lines 108-109: tracking_pattern.findall(featured_section).
FindAllIds(section) ==
    LET links == SelectSeq(section, IsLink)
    IN  [i \in 1..Len(links) |-> links[i].id]

\* A plausible bug: the ids are not deduplicated.
AllIds(mla_ids) == mla_ids

\* Lines 112-117: duplicates removed, order of first appearance kept.
RECURSIVE UniqueFrom(_, _, _, _)
UniqueFrom(mla_ids, i, seen, unique_mla_ids) ==
    IF i > Len(mla_ids) THEN unique_mla_ids
    ELSE IF mla_ids[i] \notin seen
         THEN UniqueFrom(mla_ids, i + 1, seen \cup {mla_ids[i]},
                         Append(unique_mla_ids, mla_ids[i]))
         ELSE UniqueFrom(mla_ids, i + 1, seen, unique_mla_ids)

UniqueIds(mla_ids) == UniqueFrom(mla_ids, 1, {}, <<>>)

IsPrefix(a, b) == Len(a) <= Len(b) /\ SubSeq(b, 1, Len(a)) = a

\* Line 124: featured_section.find(f'/MLA/trackings/{mla_id}'); the text
\* sought also starts the link of every id that begins with mla_id.
FindLink(section, mla_id) ==
    LET hits == {i \in 0..(Len(section) - 1) :
                    IsLink(section[i + 1]) /\ IsPrefix(mla_id, section[i + 1].id)}
    IN  IF hits = {} THEN -1 ELSE CHOOSE i \in hits : \A j \in hits : i <= j

\* Lines 129-148: the block around the link and the first name found in it;
\* <<>> when there is none.
NameIn(section, idx) ==
    LET block_start == IF idx - BlockBefore > 0 THEN idx - BlockBefore ELSE 0
        block == Slice(section, block_start, idx + BlockAfter)
        found == {i \in 1..Len(block) : block[i] = PARA}
    IN  IF found # {}
        THEN <<"P", <<block_start + (CHOOSE i \in found : \A j \in found : i <= j)>>>>
        ELSE <<>>

\* Lines 121-208: one offer for each unique id.
RECURSIVE OffersFrom(_, _, _, _)
OffersFrom(section, unique_mla_ids, i, offers) ==
    IF i > Len(unique_mla_ids) THEN offers
    ELSE LET mla_id == unique_mla_ids[i]
             idx == FindLink(section, mla_id)
             name == IF idx = -1 THEN <<>> ELSE NameIn(section, idx)
         IN  IF idx = -1 THEN OffersFrom(section, unique_mla_ids, i + 1, offers)
             ELSE OffersFrom(section, unique_mla_ids, i + 1,
                     Append(offers,
                            [name |-> IF name # <<>> THEN name
                                      ELSE <<"Producto", mla_id>>,
                             mla_id |-> mla_id]))

\* Lines 76-220: every exception and every status but 200 gives [].
fetch_mercadotrack_featured(error, status_code, html) ==
    IF error # "none" THEN <<>>
    ELSE IF status_code # 200 THEN <<>>
    ELSE IF FindToken(html, START) = -1 THEN <<>>
    ELSE LET featured_section == FeaturedSection(html)
         IN  OffersFrom(featured_section,
                        UniqueIds(FindAllIds(featured_section)), 1, <<>>)

NotFetched == [called |-> FALSE, error |-> "none", status_code |-> 0, offers |-> <<>>]

FeaturedInit ==
    /\ mt_html = <<>>
    /\ mt_result = NotFetched

\* One more token of the featured page.
TypeToken ==
    /\ ~mt_result.called
    /\ Len(mt_html) < MaxTokens
    /\ \E t \in Tokens : mt_html' = Append(mt_html, t)
    /\ UNCHANGED mt_result
    /\ UNCHANGED notFeatured

\* fetch_mercadotrack_featured() gets the page with status 200 or another.
FetchFeatured ==
    /\ ~mt_result.called
    /\ \E st \in MtStatuses :
          mt_result' = [called |-> TRUE, error |-> "none", status_code |-> st,
                        offers |-> fetch_mercadotrack_featured("none", st, mt_html)]
    /\ UNCHANGED mt_html
    /\ UNCHANGED notFeatured

\* fetch_mercadotrack_featured() and requests.get raises.
FetchFeaturedFails ==
    /\ ~mt_result.called
    /\ \E e \in MtErrors :
          mt_result' = [called |-> TRUE, error |-> e, status_code |-> 0,
                        offers |-> fetch_mercadotrack_featured(e, 0, mt_html)]
    /\ UNCHANGED mt_html
    /\ UNCHANGED notFeatured

FeaturedNext == TypeToken \/ FetchFeatured \/ FetchFeaturedFails

(***************************************************************************)
(* fetch_price_history                                                     *)
(*                                                                         *)
(* A snapshot is kept by its date and its price.  Dates are day numbers,   *)
(* ordered as the ISO date strings are; 0 is a snapshot without a date,    *)
(* whose sort key is the empty string, before every date.                  *)
(***************************************************************************)
\* Bound of the history pages: runs of equal snapshots on the page.
MaxRuns == 3

\* Line 321: the last 90 snapshots are returned.
HistoryCap == 90

RunSizes == {1, 89}
Dates == {0, 1, 2}
DatedSnapshots == [date : Dates, has_price : {TRUE}, price : {100, 200}]

\* What requests.get met (lines 299-309) and what extract_snapshots_json
\* did with the page (line 312): returned the list, returned None or raised.
HistoryErrors == {"Timeout", "RequestException"}
HistoryStatuses == {200, 429, 500}
Extractions == {"value", "null", "raise"}

\* Line 320: snapshots.sort(key=date).  The sort is stable and ascending: the
\* snapshots of the least date first, in their order of arrival, and so on.
SortByDate(snaps) ==
    LET of(d) == SelectSeq(snaps, LAMBDA x : x.date = d)
        RECURSIVE upTo(_)
        upTo(d) == IF d < 0 THEN <<>> ELSE upTo(d - 1) \o of(d)
    IN  upTo(CHOOSE d \in Dates : \A e \in Dates : e <= d)

\* A plausible bug: the first 90 snapshots are returned.
OldestOnes(snaps) ==
    IF Len(snaps) > HistoryCap THEN SubSeq(snaps, 1, HistoryCap) ELSE snaps

\* Line 321: snapshots[-90:] if len(snapshots) > 90 else snapshots.
LatestOnes(snaps) ==
    IF Len(snaps) > HistoryCap
    THEN SubSeq(snaps, Len(snaps) - HistoryCap + 1, Len(snaps))
    ELSE snaps

NoHistory == [returned |-> "None", snapshots |-> <<>>]

\* Lines 292-330.
fetch_price_history(error, status_code, extraction, snaps) ==
    IF error # "none" THEN NoHistory
    ELSE IF status_code = 429 THEN NoHistory
    ELSE IF status_code # 200 THEN NoHistory
    ELSE IF extraction = "raise" THEN NoHistory
    ELSE IF extraction = "null" \/ snaps = <<>> THEN NoHistory
    ELSE [returned |-> "list", snapshots |-> LatestOnes(SortByDate(snaps))]

NotAsked ==
    [called |-> FALSE, error |-> "none", status_code |-> 0,
     extraction |-> "null", result |-> NoHistory]

HistoryInit ==
    /\ page_snapshots = <<>>
    /\ history = NotAsked

Runs(snaps) ==
    Cardinality({i \in 1..Len(snaps) : i = 1 \/ snaps[i] # snaps[i - 1]})

\* A run of equal snapshots more on the page.
AppendRun ==
    /\ ~history.called
    /\ Runs(page_snapshots) < MaxRuns
    /\ \E x \in DatedSnapshots, n \in RunSizes :
          /\ IF page_snapshots = <<>> THEN TRUE
             ELSE page_snapshots[Len(page_snapshots)] # x
          /\ page_snapshots' = page_snapshots \o [i \in 1..n |-> x]
    /\ UNCHANGED history
    /\ UNCHANGED notHistory

\* fetch_price_history(mla_id) gets a response.
FetchHistory ==
    /\ ~history.called
    /\ \E st \in HistoryStatuses, ex \in Extractions :
          history' = [called |-> TRUE, error |-> "none", status_code |-> st,
                      extraction |-> ex,
                      result |-> fetch_price_history("none", st, ex, page_snapshots)]
    /\ UNCHANGED page_snapshots
    /\ UNCHANGED notHistory

\* fetch_price_history(mla_id) and requests.get raises.
FetchHistoryFails ==
    /\ ~history.called
    /\ \E e \in HistoryErrors :
          history' = [called |-> TRUE, error |-> e, status_code |-> 0,
                      extraction |-> "null",
                      result |-> fetch_price_history(e, 0, "null", page_snapshots)]
    /\ UNCHANGED page_snapshots
    /\ UNCHANGED notHistory

HistoryNext == AppendRun \/ FetchHistory \/ FetchHistoryFails

(***************************************************************************)
(* fetch_top_offers_history                                                *)
(***************************************************************************)
\* Bound of the ranked lists passed to the function.
MaxRanked == 4

\* top_n: main calls fetch_top_offers_history(offers, top_n=3).
top_n == 3

IsDigit(c) == c \in {"1", "2"}

\* The last position of the run of digits that starts at position i.
RECURSIVE DigitsEnd(_, _)
DigitsEnd(url, i) ==
    IF i < Len(url) /\ IsDigit(url[i + 1]) THEN DigitsEnd(url, i + 1) ELSE i

\* Lines 69 and 246-249: MLA_ID_PATTERN.search(url), the leftmost "MLA"
\* followed by a digit, with all the digits that follow; <<>> for None.
extract_mla_id(url) ==
    LET hits == {i \in 1..(Len(url) - 3) :
                    /\ SubSeq(url, i, i + 2) = <<"M", "L", "A">>
                    /\ IsDigit(url[i + 3])}
    IN  IF hits = {} THEN <<>>
        ELSE LET i == CHOOSE j \in hits : \A k \in hits : j <= k
             IN  SubSeq(url, i, DigitsEnd(url, i + 3))

\* The ranked offers of the model: four links (one without an id), with the
\* fields the function reads.
TopOffers ==
    { [link |-> <<"p", "/", "M", "L", "A", "1">>, discount |-> 20, price |-> 95],
      [link |-> <<"M", "L", "A", "-", "M", "L", "A", "2", "1">>,
       discount |-> 20, price |-> 190],
      [link |-> <<"p", "/", "M", "L", "A">>, discount |-> 10, price |-> 95],
      [link |-> <<"p", "/", "M", "L", "A", "2">>, discount |-> 10, price |-> 190] }

\* What scrape_offers returns: no link twice, discounts in descending order.
IsRanked(offers) ==
    \A i, j \in 1..Len(offers) :
       i < j => /\ offers[i].link # offers[j].link
                /\ offers[i].discount >= offers[j].discount

\* The snapshot lists found on the pages of MercadoTrack.
TopPages ==
    { <<>>,
      <<[date |-> 2, has_price |-> TRUE, price |-> 200],
        [date |-> 1, has_price |-> TRUE, price |-> 100]>> }

\* offer.get("price", 0)
PriceOf(offer) == IF "price" \in DOMAIN offer THEN offer.price ELSE 0

\* A plausible bug: the keys are set on the offer itself, not on a copy.
AttachInPlace(offers, i, extra) ==
    [offers |-> [offers EXCEPT ![i] = extra @@ offers[i]],
     record |-> extra @@ offers[i]]

\* Lines 1083-1086 and 1090-1092: offer.copy(), then the keys set on the copy.
\* The list passed and its records are returned as they are.
Attach(offers, i, extra) ==
    [offers |-> offers, record |-> extra @@ offers[i]]

\* Line 1091.
NoIdAnalysis == [status |-> "unknown", message |-> "ID no encontrado", stats |-> NoStats]

\* The offer the loop is at: offers[:top_n] is walked in order.
TopIndex == Len(featured) + 1

TopRemaining == TopIndex <= Min2(top_n, Len(top_offers))

TopInit ==
    /\ top_pc = "loop"
    /\ top_offers \in {o \in SeqsUpTo(TopOffers, MaxRanked) : IsRanked(o)}
    /\ offers_at_call = top_offers
    /\ featured = <<>>
    /\ top_log = <<>>

\* Lines 1082-1087 with the history fetch of result h.
TopAppend(mla_id, fetch, h) ==
    LET price_analysis == analyze_price_history(h.returned = "list", h.snapshots,
                                                PriceOf(top_offers[TopIndex]))
        a == Attach(top_offers, TopIndex,
                    [price_analysis |-> price_analysis, mla_id |-> mla_id])
    IN  /\ top_offers' = a.offers
        /\ featured' = Append(featured, a.record)
        /\ top_log' = Append(top_log, [mla_id |-> mla_id, fetch |-> fetch, result |-> h])
        /\ UNCHANGED <<top_pc, offers_at_call>>

\* A plausible bug: the exception of a failed fetch is not caught, and ends
\* the loop with the offers handled so far.
TopFetchFailsEndsLoop ==
    /\ top_pc = "loop"
    /\ TopRemaining
    /\ extract_mla_id(top_offers[TopIndex].link) # <<>>
    /\ \E e \in HistoryErrors :
          /\ top_pc' = "done"
          /\ UNCHANGED <<top_offers, offers_at_call, featured, top_log>>
    /\ UNCHANGED notTop

\* A plausible bug: the exception of a failed fetch is not caught anywhere
\* below main, which logs it and raises it again (lines 1131-1133).
TopFetchFailsRaises ==
    /\ top_pc = "loop"
    /\ TopRemaining
    /\ extract_mla_id(top_offers[TopIndex].link) # <<>>
    /\ \E e \in HistoryErrors :
          /\ top_pc' = "raised"
          /\ UNCHANGED <<top_offers, offers_at_call, featured, top_log>>
    /\ UNCHANGED notTop

\* Lines 1079-1087: an id is found and requests.get returns a response.
TopFetched ==
    /\ top_pc = "loop"
    /\ TopRemaining
    /\ LET mla_id == extract_mla_id(top_offers[TopIndex].link) IN
       /\ mla_id # <<>>
       /\ \E st \in HistoryStatuses, ex \in Extractions, page \in TopPages :
             /\ st # 200 => ex = "null"
             /\ ex # "value" => page = <<>>
             /\ TopAppend(mla_id,
                          [error |-> "none", status_code |-> st, extraction |-> ex,
                           found |-> Len(page)],
                          fetch_price_history("none", st, ex, page))
    /\ UNCHANGED notTop

\* Lines 1079-1087: an id is found and requests.get raises.
TopFetchFails ==
    /\ top_pc = "loop"
    /\ TopRemaining
    /\ LET mla_id == extract_mla_id(top_offers[TopIndex].link) IN
       /\ mla_id # <<>>
       /\ \E e \in HistoryErrors :
             TopAppend(mla_id,
                       [error |-> e, status_code |-> 0, extraction |-> "null",
                        found |-> 0],
                       fetch_price_history(e, 0, "null", <<>>))
    /\ UNCHANGED notTop

\* Lines 1088-1092: no id in the link, no fetch.
TopNoId ==
    /\ top_pc = "loop"
    /\ TopRemaining
    /\ extract_mla_id(top_offers[TopIndex].link) = <<>>
    /\ LET a == Attach(top_offers, TopIndex, [price_analysis |-> NoIdAnalysis]) IN
       /\ top_offers' = a.offers
       /\ featured' = Append(featured, a.record)
       /\ top_log' = Append(top_log,
                            [mla_id |-> <<>>,
                             fetch |-> [error |-> "none", status_code |-> 0,
                                        extraction |-> "null", found |-> 0],
                             result |-> NoHistory])
    /\ UNCHANGED <<top_pc, offers_at_call>>
    /\ UNCHANGED notTop

\* Line 1094: the loop is over, `featured` is returned.
TopReturn ==
    /\ top_pc = "loop"
    /\ ~TopRemaining
    /\ top_pc' = "done"
    /\ UNCHANGED <<top_offers, offers_at_call, featured, top_log>>
    /\ UNCHANGED notTop

TopNext == TopFetched \/ TopFetchFails \/ TopNoId \/ TopReturn

(***************************************************************************)
(* main                                                                    *)
(*                                                                         *)
(* One run: fetch_mercadotrack_featured, scrape_offers page by page,       *)
(* fetch_top_offers_history offer by offer, then the report.  The steps of *)
(* the three functions are the actions above, on smaller sets of pages and *)
(* offers; generate_html and the writing of the files are one step, which  *)
(* is where the model of the run ends.                                     *)
(***************************************************************************)
\* The featured page of a run.
MainPages == { <<START, LinkTo(<<1>>)>> }

\* The offers on the pages of a run: one with an id in its link, one without.
MainOffers ==
    { [link |-> <<"p", "/", "M", "L", "A", "1">>, discount |-> 20],
      [link |-> <<"p", "/", "M", "L", "A">>, discount |-> 10] }

MainInit == main_pc = "featured"

\* What the first two calls of main leave alone.
mainFrame == <<analyzeVars, extractVars, preloadedVars, parseVars, historyVars>>

\* Lines 1106-1108: fetch_mercadotrack_featured() returns (it gets a response
\* or requests.get raises), then scrape_offers is entered.
MainFeatured ==
    /\ main_pc = "featured"
    /\ \E html \in MainPages :
       \E r \in [error : {"none"}, status_code : MtStatuses]
                   \cup [error : MtErrors, status_code : {0}] :
          /\ mt_html' = html
          /\ mt_result' = [called |-> TRUE, error |-> r.error,
                           status_code |-> r.status_code,
                           offers |-> fetch_mercadotrack_featured(
                                         r.error, r.status_code, html)]
    /\ main_pc' = "scrape"
    /\ pc' = "loop"
    /\ UNCHANGED <<source, page_num, all_offers, seen_urls, fetched,
                   skipped, added_after_skip>>
    /\ UNCHANGED <<mainFrame, topVars>>

\* Lines 454-466, on the pages of a run.
MainPageOk == PageOkWith(MainOffers)

\* Line 1112: scrape_offers has returned, fetch_top_offers_history is entered
\* with its result.
MainTop ==
    /\ main_pc = "scrape"
    /\ pc = "done"
    /\ main_pc' = "history"
    /\ top_pc' = "loop"
    /\ top_offers' = all_offers
    /\ offers_at_call' = all_offers
    /\ UNCHANGED <<featured, top_log>>
    /\ UNCHANGED <<mainFrame, scrapeVars, featuredVars>>

\* Lines 1114-1129: fetch_top_offers_history has returned; the report is
\* generated and written.
MainReport ==
    /\ main_pc = "history"
    /\ top_pc = "done"
    /\ main_pc' = "report"
    /\ UNCHANGED <<mainFrame, scrapeVars, featuredVars, topVars>>

MainNext ==
    \/ MainFeatured
    \/ MainPageOk
    \/ PageFails
    \/ MainTop
    \/ TopFetched
    \/ TopFetchFails
    \/ TopNoId
    \/ TopReturn
    \/ MainReport

(***************************************************************************)
(* Specifications                                                          *)
(***************************************************************************)
ScrapeIdle ==
    /\ pc = "idle"
    /\ source = 1
    /\ page_num = 1
    /\ all_offers = <<>>
    /\ seen_urls = {}
    /\ fetched = <<>>
    /\ skipped = 0
    /\ added_after_skip = FALSE

AnalyzeIdle ==
    /\ snapshots = <<>>
    /\ has_history = FALSE
    /\ analysis = [first |-> NoCall, again |-> NoCall]

ExtractIdle ==
    /\ prefix = <<>>
    /\ body = <<>>
    /\ extracted = Pending

PreloadedIdle ==
    /\ state_object = <<>>
    /\ assignment = <<>>
    /\ html_tail = <<>>
    /\ preloaded = Pending

ParseIdle ==
    /\ items = <<>>
    /\ parsed = NotParsed

FeaturedIdle ==
    /\ mt_html = <<>>
    /\ mt_result = NotFetched

HistoryIdle ==
    /\ page_snapshots = <<>>
    /\ history = NotAsked

TopIdle ==
    /\ top_pc = "idle"
    /\ top_offers = <<>>
    /\ offers_at_call = <<>>
    /\ featured = <<>>
    /\ top_log = <<>>

MainIdle == main_pc = "idle"

InitScrape ==
    /\ ScrapeInit
    /\ AnalyzeIdle
    /\ ExtractIdle
    /\ PreloadedIdle
    /\ ParseIdle
    /\ FeaturedIdle
    /\ HistoryIdle
    /\ TopIdle
    /\ MainIdle

InitAnalyze ==
    /\ AnalyzeInit
    /\ ScrapeIdle
    /\ ExtractIdle
    /\ PreloadedIdle
    /\ ParseIdle
    /\ FeaturedIdle
    /\ HistoryIdle
    /\ TopIdle
    /\ MainIdle

InitExtract ==
    /\ ExtractInit
    /\ ScrapeIdle
    /\ AnalyzeIdle
    /\ PreloadedIdle
    /\ ParseIdle
    /\ FeaturedIdle
    /\ HistoryIdle
    /\ TopIdle
    /\ MainIdle

InitPreloaded ==
    /\ PreloadedInit
    /\ ScrapeIdle
    /\ AnalyzeIdle
    /\ ExtractIdle
    /\ ParseIdle
    /\ FeaturedIdle
    /\ HistoryIdle
    /\ TopIdle
    /\ MainIdle

InitParse ==
    /\ ParseInit
    /\ ScrapeIdle
    /\ AnalyzeIdle
    /\ ExtractIdle
    /\ PreloadedIdle
    /\ FeaturedIdle
    /\ HistoryIdle
    /\ TopIdle
    /\ MainIdle

InitFeatured ==
    /\ FeaturedInit
    /\ ScrapeIdle
    /\ AnalyzeIdle
    /\ ExtractIdle
    /\ PreloadedIdle
    /\ ParseIdle
    /\ HistoryIdle
    /\ TopIdle
    /\ MainIdle

InitHistory ==
    /\ HistoryInit
    /\ ScrapeIdle
    /\ AnalyzeIdle
    /\ ExtractIdle
    /\ PreloadedIdle
    /\ ParseIdle
    /\ FeaturedIdle
    /\ TopIdle
    /\ MainIdle

InitTop ==
    /\ TopInit
    /\ ScrapeIdle
    /\ AnalyzeIdle
    /\ ExtractIdle
    /\ PreloadedIdle
    /\ ParseIdle
    /\ FeaturedIdle
    /\ HistoryIdle
    /\ MainIdle

InitMain ==
    /\ MainInit
    /\ ScrapeIdle
    /\ AnalyzeIdle
    /\ ExtractIdle
    /\ PreloadedIdle
    /\ ParseIdle
    /\ FeaturedIdle
    /\ HistoryIdle
    /\ TopIdle

SpecScrape == InitScrape /\ [][ScrapeNext]_vars

SpecAnalyze == InitAnalyze /\ [][AnalyzeNext]_vars

SpecExtract == InitExtract /\ [][ExtractNext]_vars

SpecPreloaded == InitPreloaded /\ [][PreloadedNext]_vars

SpecParse == InitParse /\ [][ParseNext]_vars

SpecFeatured == InitFeatured /\ [][FeaturedNext]_vars

SpecHistory == InitHistory /\ [][HistoryNext]_vars

SpecTop == InitTop /\ [][TopNext]_vars

SpecMain == InitMain /\ [][MainNext]_vars

\* main is one sequential program, and each of its calls returns (the
\* requests have timeouts): a step that can be taken is taken.
SpecMainFair == SpecMain /\ WF_vars(MainNext)

(***************************************************************************)
(* Claims about scrape_offers (checked under SpecScrape)                   *)
(***************************************************************************)
FetchedLinks == {fetched[i].link : i \in 1..Len(fetched)}

\* The position in `s` of the first offer with link l.
FirstIndex(s, l) ==
    CHOOSE i \in 1..Len(s) : s[i].link = l /\ \A j \in 1..(i - 1) : s[j].link # l

\* C1: after any sequence of page batches the accumulated list holds each
\* fetched link exactly once, the record kept for a link is the one of its
\* first occurrence in fetch order, no link is missing (the length is the
\* number of distinct links), and until the final sort the kept records stand
\* in first-occurrence order.
C1_EachLinkOnceFirstSeen ==
    /\ Len(all_offers) = Cardinality(FetchedLinks)
    /\ \A l \in FetchedLinks :
          \E k \in 1..Len(all_offers) :
             /\ all_offers[k] = fetched[FirstIndex(fetched, l)]
             /\ \A k2 \in 1..Len(all_offers) : k2 # k => all_offers[k2].link # l
    /\ pc = "loop" =>
          \A k1, k2 \in 1..Len(all_offers) :
             k1 < k2 => FirstIndex(fetched, all_offers[k1].link)
                           < FirstIndex(fetched, all_offers[k2].link)

\* The run has returned; a link was fetched twice, with different records, and
\* the first one was kept.
C1_Witness ==
    /\ pc = "done"
    /\ Len(all_offers) >= 2
    /\ \E i, j \in 1..Len(fetched) :
          /\ i < j
          /\ fetched[i].link = fetched[j].link
          /\ fetched[i] # fetched[j]
          /\ \E k \in 1..Len(all_offers) : all_offers[k] = fetched[i]

\* C2: the returned list is ordered by discount, highest first, and of two
\* returned offers with the same discount the one appended earlier (fetched
\* first) stands first.
C2_SortedByDiscountStable ==
    pc = "done" =>
       \A i, j \in 1..Len(all_offers) :
          i < j =>
             /\ all_offers[i].discount >= all_offers[j].discount
             /\ all_offers[i].discount = all_offers[j].discount =>
                   FirstIndex(fetched, all_offers[i].link)
                      < FirstIndex(fetched, all_offers[j].link)

\* The run has returned three offers: the sort moved a later offer to the
\* front, and two offers with equal discounts follow it.
C2_Witness ==
    /\ pc = "done"
    /\ Len(all_offers) = 3
    /\ all_offers[1].discount > all_offers[2].discount
    /\ all_offers[2].discount = all_offers[3].discount
    /\ FirstIndex(fetched, all_offers[1].link) > FirstIndex(fetched, all_offers[2].link)

\* The page after (src, pg) in the loop order of lines 447-451.
NextPage(src, pg) ==
    IF pg = pages_per_source THEN <<src + 1, 1>> ELSE <<src, pg + 1>>

\* A step that skips a page leaves the seen links and the offers (fetched and
\* accumulated) as they were, and moves on to the next page; after the last
\* page the function returns the accumulated offers, sorted.
SkipLeavesStateAlone ==
    skipped' = skipped + 1 =>
       /\ seen_urls' = seen_urls
       /\ fetched' = fetched
       /\ IF LastPage
          THEN /\ pc' = "done"
               /\ Len(all_offers') = Len(all_offers)
               /\ Range(all_offers') = Range(all_offers)
          ELSE /\ pc' = "loop"
               /\ all_offers' = all_offers
               /\ <<source', page_num'>> = NextPage(source, page_num)

\* C11: a page that fails is skipped and nothing else: the seen links and the
\* accumulated offers stay as they were before the page, the loop goes on to
\* every later page and source (it returns only after the last page of the
\* last source), and every link fetched from the other pages is in the result.
C11_FailedPageSkippedOnly ==
    /\ [][SkipLeavesStateAlone]_vars
    /\ [][pc' = "done" => LastPage]_vars
    /\ [](pc = "done" =>
             \A l \in FetchedLinks :
                \E k \in 1..Len(all_offers) : all_offers[k].link = l)

\* The run has returned: pages were skipped, a page after a skipped one
\* appended offers, and they are in the result.
C11_Witness ==
    /\ pc = "done"
    /\ skipped >= 2
    /\ added_after_skip
    /\ Len(all_offers) >= 2


(***************************************************************************)
(* Claims about analyze_price_history (checked under SpecAnalyze)          *)
(***************************************************************************)
\* The usable prices of the caller's list, as the claims count them: the
\* prices that are present and not zero.
UsablePrices ==
    LET idx == {i \in 1..Len(snapshots) :
                   snapshots[i].has_price /\ snapshots[i].price # 0}
    IN  {snapshots[i].price : i \in idx}

LeastUsable == CHOOSE m \in UsablePrices : \A x \in UsablePrices : m <= x

\* The three conditions of the classification, on the statistics returned.
ExcellentHolds(c) == c.current_price * 100 <= c.result.stats.min_price * 105

GoodHolds(c) ==
    c.current_price * 100 * c.result.stats.avg_price.den
       < c.result.stats.avg_price.num * 85

SuspiciousHolds(c) ==
    LET p == c.result.stats.prices
        n == Len(p)
        older == IF n > 30 THEN SubSeq(p, 1, n - 30) ELSE <<>>
        recent == IF n > 30 THEN SubSeq(p, n - 29, n) ELSE p
        o == IF older = <<>> THEN recent ELSE older
    IN  /\ Sum(o) > 0
        /\ Sum(recent) * Len(o) * 10 > Sum(o) * Len(recent) * 11

\* C3: with at least one usable price the status is that of the first branch
\* that matches, in the order excellent, good, suspicious, normal; when both
\* the excellent and the suspicious condition hold the status is excellent.
C3_FirstMatchWins ==
    LET c == analysis.first IN
    (c.called /\ c.result.stats.has_stats) =>
       /\ c.result.status =
             IF ExcellentHolds(c) THEN "excellent"
             ELSE IF GoodHolds(c) THEN "good"
             ELSE IF SuspiciousHolds(c) THEN "suspicious"
             ELSE "normal"
       /\ (ExcellentHolds(c) /\ SuspiciousHolds(c)) => c.result.status = "excellent"

\* A call where the excellent and the suspicious condition both hold.
C3_Witness ==
    LET c == analysis.first IN
    /\ c.called
    /\ c.result.stats.has_stats
    /\ ExcellentHolds(c)
    /\ SuspiciousHolds(c)
    /\ c.result.status = "excellent"

Price(p) == [has_price |-> TRUE, price |-> p]

\* The scenario of C4: prices 100 (3 times), then 200 (7 times); current 190.
C4_Scenario ==
    /\ analysis.first.called
    /\ analysis.first.present
    /\ analysis.first.snapshots = Repeat(Price(100), 3) \o Repeat(Price(200), 7)
    /\ analysis.first.current_price = 190

\* C4 as stated: the scenario is classified suspicious.
C4_ScenarioSuspicious == C4_Scenario => analysis.first.result.status = "suspicious"

\* C4, amended: with ten prices the older window is empty, older_avg is
\* recent_avg, and the scenario is classified normal.
C4_ScenarioNormal ==
    C4_Scenario =>
       /\ analysis.first.result.status = "normal"
       /\ OlderPrices(analysis.first.result.stats.prices) = <<>>

C4_Witness == C4_Scenario /\ analysis.first.result.stats.has_stats

\* C5 as stated, on lists without a negative price: a list of zero or one
\* snapshot is always classified unknown.
C5_ShortListUnknown ==
    LET c == analysis.first IN
    (/\ c.called
     /\ Len(c.snapshots) <= 1
     /\ \A i \in 1..Len(c.snapshots) : c.snapshots[i].price >= 0)
       => c.result.status = "unknown"

\* C5, amended: an empty list, and a single snapshot whose price is missing or
\* zero, are classified unknown; a single snapshot with a positive price is
\* classified excellent, good or normal; in each case every quotient taken
\* has a divisor of one, never zero.
C5_ShortListNoDivisionByZero ==
    LET c == analysis.first IN
    (c.called /\ Len(c.snapshots) <= 1) =>
       /\ UsablePrices = {} =>
             c.result.status = "unknown" /\ ~c.result.stats.has_stats
       /\ (\E p \in UsablePrices : p > 0) =>
             c.result.status \in {"excellent", "good", "normal"}
       /\ c.result.stats.has_stats =>
             /\ c.result.stats.avg_price.den = 1
             /\ RecentAvg(c.result.stats.prices).den = 1
             /\ OlderAvg(c.result.stats.prices).den = 1

\* A single snapshot with a positive price, not classified unknown.
C5_Witness ==
    /\ analysis.first.called
    /\ Len(analysis.first.snapshots) = 1
    /\ \E p \in UsablePrices : p > 0
    /\ analysis.first.result.status = "normal"

\* C6: the result is unknown, without statistics, if and only if the input is
\* absent, empty or holds no snapshot with a positive price.
C6_UnknownIffNoPositivePrice ==
    LET c == analysis.first IN
    c.called =>
       ((c.result.status = "unknown" /\ ~c.result.stats.has_stats)
          <=> (\/ ~c.present
               \/ c.snapshots = <<>>
               \/ \A i \in 1..Len(c.snapshots) :
                     ~(c.snapshots[i].has_price /\ c.snapshots[i].price > 0)))

\* C7: a current price equal to min_price * 1.05 is classified excellent, and
\* a current price above that bound is not.
C7_ExcellentBoundaryInclusive ==
    LET c == analysis.first IN
    (c.called /\ UsablePrices # {}) =>
       /\ c.current_price * 100 = LeastUsable * 105 => c.result.status = "excellent"
       /\ c.current_price * 100 > LeastUsable * 105 => c.result.status # "excellent"

\* A call with the current price exactly on the bound (105 for a minimum of 100).
C7_Witness ==
    /\ analysis.first.called
    /\ UsablePrices # {}
    /\ analysis.first.current_price * 100 = LeastUsable * 105
    /\ analysis.first.result.status = "excellent"

UsableCount ==
    Cardinality({i \in 1..Len(analysis.first.snapshots) :
                    Truthy(analysis.first.snapshots[i])})

RECURSIVE EscapeFrom(_, _, _)
EscapeFrom(s, i, acc) ==
    IF i > Len(s) THEN acc
    ELSE EscapeFrom(s, i + 1,
                    IF s[i] \in {"\"", "\\"} THEN acc \o <<"\\", s[i]>>
                    ELSE Append(acc, s[i]))

Escape(s) == EscapeFrom(s, 1, <<>>)

\* The text after the raw marker is a JSON array (the marker's bracket opens it).
BodyIsArray == JsonLoads(<<"[">> \o body).err = "none"

\* C9: the same array gives the same result embedded raw, after the raw
\* marker, and embedded escaped, after the escaped marker.
C9_SameResultBothForms ==
    (extracted # Pending /\ prefix = RawMarker /\ BodyIsArray) =>
       extracted = extract_snapshots_json(EscapedMarker \o Escape(body))

\* C10: the call never raises; it returns null when neither marker occurs,
\* when the opening bracket is never closed, and when the candidate span is
\* not valid JSON.
C10_NeverRaises ==
    extracted # Pending =>
       LET start == MarkerStart(Text)
           end == IF start = -1 THEN -1 ELSE ScanEnd(Text, start, 0, 0)
       IN  /\ extracted.outcome \in {"value", "null"}
           /\ start = -1 => extracted = Null
           /\ (start # -1 /\ end = -1) => extracted = Null
           /\ (end # -1 /\ JsonLoads(Unescape(SubSeq(Text, start + 1, end))).err
                              = "JSONDecodeError") => extracted = Null

\* The character at offset k (from 0) of the scan that starts at `start`.
CharAt(text, start, k) == text[start + k + 1]

\* Whether the scan passes over offset k without looking at it.  With `every`
\* the character after every backslash is passed over; without it, only the
\* character after a backslash that was itself looked at.
RECURSIVE PassedOver(_, _, _, _)
PassedOver(text, start, k, every) ==
    /\ k > 0
    /\ CharAt(text, start, k - 1) = "\\"
    /\ (every \/ ~PassedOver(text, start, k - 1, every))

\* The depth after offset k: the brackets looked at up to k, opening minus
\* closing.
DepthAfter(text, start, k, every) ==
    LET at(c) == {j \in 0..k : /\ CharAt(text, start, j) = c
                               /\ ~PassedOver(text, start, j, every)}
    IN  Cardinality(at("[")) - Cardinality(at("]"))

\* The end (0-based, exclusive) of the span that closes at the first closing
\* bracket looked at with depth zero after it; -1 when there is none.
SpanEnd(text, start, every) ==
    LET closes == {k \in 0..(Len(text) - start - 1) :
                      /\ CharAt(text, start, k) = "]"
                      /\ ~PassedOver(text, start, k, every)
                      /\ DepthAfter(text, start, k, every) = 0}
    IN  IF closes = {} THEN -1
        ELSE start + 1 + (CHOOSE k \in closes : \A j \in closes : k <= j)

\* C17 as stated: the character after every backslash is passed over, so that
\* no bracket that stands after a backslash changes the depth.
C17_EveryBackslashSkips ==
    (extracted # Pending /\ MarkerStart(Text) # -1) =>
       ScanEnd(Text, MarkerStart(Text), 0, 0) = SpanEnd(Text, MarkerStart(Text), TRUE)

\* C17, amended: the scan passes over the character after every backslash that
\* it looks at (a backslash that was itself passed over skips nothing); it
\* stops at the first closing bracket that brings the depth to zero, and the
\* candidate is the span from the opening bracket to that bracket inclusive.
\* The escaped marker is used wherever it occurs; the raw marker only when
\* the escaped one occurs nowhere.
C17_UnescapedBackslashSkips ==
    extracted # Pending =>
       LET esc == Find(Text, EscapedMarker)
           raw == Find(Text, RawMarker)
           start == IF esc # -1 THEN esc + Len(EscapedMarker) - 1
                    ELSE IF raw # -1 THEN raw + Len(RawMarker) - 1
                    ELSE -1
           end == IF start = -1 THEN -1 ELSE SpanEnd(Text, start, FALSE)
       IN  /\ start # -1 =>
                 /\ Text[start + 1] = "["
                 /\ ScanEnd(Text, start, 0, 0) = end
           /\ (start # -1 /\ end # -1) =>
                 /\ Text[end] = "]"
                 /\ extracted = ParseCandidate(SubSeq(Text, start + 1, end))
           /\ (start = -1 \/ end = -1) => extracted = Null

\* Both markers occur, the raw one first; after the escaped marker a bracket
\* behind a backslash is passed over and the bracket after it ends the span.
C17_Witness ==
    /\ extracted # Pending
    /\ prefix = RawMarker \o <<"]">> \o EscapedMarker
    /\ body = <<"\\", "]", "]">>
    /\ ScanEnd(Text, MarkerStart(Text), 0, 0) = Len(Text)

(***************************************************************************)
(* Claims about extract_preloaded_state (checked under SpecPreloaded)      *)
(***************************************************************************)
\* C18: when the page holds the assignment of a well-formed JSON object to
\* the marker, the call returns that object parsed, whatever the object and
\* whatever follows the assignment.
C18_ReturnsAssignedObject ==
    (preloaded # Pending /\ state_object # <<>>) =>
       preloaded = [outcome |-> "value", value |-> JsonLoads(state_object).val]

(***************************************************************************)
(* Claims about parse_items (checked under SpecParse)                      *)
(***************************************************************************)
\* The item's name is present: its last title component has a text.
HasName(it) ==
    \E i \in 1..Len(it.components) :
       /\ it.components[i].type = "title"
       /\ it.components[i].text # ""
       /\ \A j \in (i + 1)..Len(it.components) : it.components[j].type # "title"

HasLink(it) == it.url # ""

HasImage(it) == it.pictures # <<>> /\ it.pictures[1] # ""

Complete(it) == it.card /\ HasName(it) /\ HasLink(it) /\ HasImage(it)

\* The position in `items` of the k-th complete item.
KthComplete(k) ==
    CHOOSE i \in 1..Len(items) :
       /\ Complete(items[i])
       /\ Cardinality({j \in 1..i : Complete(items[j])}) = k

\* C14: the output holds one offer for each item that has a card, a name, a
\* link and an image, and no other; the offers stand in the order of their
\* items; each has a name, a link and an image that are not empty.
C14_RetainedIffComplete ==
    parsed.called =>
       /\ Len(parsed.offers) = Cardinality({i \in 1..Len(items) : Complete(items[i])})
       /\ \A k \in 1..Len(parsed.offers) :
             LET o == parsed.offers[k]
                 it == items[KthComplete(k)]
             IN  /\ o.name # "" /\ o.link # <<>> /\ o.image # <<>>
                 /\ o.link = <<"https://", it.url>>
                 /\ o.image[2] = it.pictures[1]
                 /\ o.name = it.components[Len(it.components)].text

\* Two items with a card, a name and a link; the first has no image and is
\* dropped, the second is complete and is returned.
C14_Witness ==
    /\ parsed.called
    /\ Len(items) = 2
    /\ Len(parsed.offers) = 1
    /\ Complete(items[2])
    /\ items[1].card /\ HasName(items[1]) /\ HasLink(items[1]) /\ ~HasImage(items[1])

(***************************************************************************)
(* Claims about fetch_mercadotrack_featured (checked under SpecFeatured)   *)
(***************************************************************************)
\* The positions (from 1) of the page that lie in the featured section: from
\* the first "START" up to the first "END", when that one stands after it.
SectionPositions ==
    LET starts == {i \in 1..Len(mt_html) : mt_html[i] = START}
        ends == {i \in 1..Len(mt_html) : mt_html[i] = END}
        s0 == CHOOSE i \in starts : \A j \in starts : i <= j
        e0 == CHOOSE i \in ends : \A j \in ends : i <= j
    IN  IF starts = {} THEN {}
        ELSE {i \in s0..Len(mt_html) : (ends # {} /\ e0 > s0) => i < e0}

\* The position of the first link to `id` in the featured section.
FirstLink(id) ==
    CHOOSE i \in SectionPositions :
       /\ mt_html[i] = LinkTo(id)
       /\ \A j \in SectionPositions : mt_html[j] = LinkTo(id) => i <= j

SectionIds == {id \in MlaIds : \E i \in SectionPositions : mt_html[i] = LinkTo(id)}

\* C15: when the page is fetched, the offers are one for each id that has a
\* link in the featured section, in the order of the ids' first links; an id
\* gets its offer whether or not a name is found, and without a paragraph in
\* the section every name is "Producto <id>".
C15_OneOfferPerIdFirstSeen ==
    (mt_result.called /\ mt_result.error = "none" /\ mt_result.status_code = 200) =>
       LET offers == mt_result.offers IN
       /\ Len(offers) = Cardinality(SectionIds)
       /\ \A id \in SectionIds : \E k \in 1..Len(offers) : offers[k].mla_id = id
       /\ \A k1, k2 \in 1..Len(offers) :
             k1 < k2 => /\ offers[k1].mla_id \in SectionIds
                        /\ offers[k2].mla_id \in SectionIds
                        /\ FirstLink(offers[k1].mla_id) < FirstLink(offers[k2].mla_id)
       /\ \A k \in 1..Len(offers) :
             \/ offers[k].name = <<"Producto", offers[k].mla_id>>
             \/ /\ offers[k].name[1] = "P"
                /\ \E i \in SectionPositions : mt_html[i] = PARA

\* A featured section with two ids, the first linked twice, and no paragraph:
\* two offers, both with the fallback name.
C15_Witness ==
    /\ mt_result.called
    /\ mt_html = <<START, LinkTo(<<1, 2>>), LinkTo(<<1>>), LinkTo(<<1, 2>>)>>
    /\ Len(mt_result.offers) = 2
    /\ mt_result.offers[1] = [name |-> <<"Producto", <<1, 2>>>>, mla_id |-> <<1, 2>>]
    /\ mt_result.offers[2].mla_id = <<1>>

(***************************************************************************)
(* Claims about fetch_price_history (checked under SpecHistory)            *)
(***************************************************************************)
\* How many times x stands in s.
Count(s, x) == Cardinality({i \in 1..Len(s) : s[i] = x})

\* C16: a returned sequence is in ascending order of date, holds 90 of the
\* snapshots of the page, or all of them when they are at most 90, and no
\* snapshot left out is dated after one that is in; it is never empty.
C16_SortedLatestNinety ==
    (history.called /\ history.result.returned = "list") =>
       LET r == history.result.snapshots
           n == Len(page_snapshots)
       IN  /\ r # <<>>
           /\ Len(r) = IF n < 90 THEN n ELSE 90
           /\ \A i \in 1..(Len(r) - 1) : r[i].date <= r[i + 1].date
           /\ \A x \in DatedSnapshots :
                 /\ Count(r, x) <= Count(page_snapshots, x)
                 /\ Count(r, x) < Count(page_snapshots, x) =>
                       \A i \in 1..Len(r) : x.date <= r[i].date

\* A page of 91 snapshots that arrive latest first: the oldest one is left
\* out and the 90 others are returned, oldest first.
C16_Witness ==
    /\ history.called
    /\ history.result.returned = "list"
    /\ Len(page_snapshots) = 91
    /\ page_snapshots[1].date = 2
    /\ page_snapshots[91].date = 0
    /\ Len(history.result.snapshots) = 90
    /\ history.result.snapshots[1].date = 1
    /\ history.result.snapshots[90].date = 2

(***************************************************************************)
(* Claims about fetch_top_offers_history (checked under SpecTop)           *)
(***************************************************************************)
\* The fetch made for the k-th offer failed: a timeout or a transport error,
\* status 429 or another status than 200, or no snapshots found on the page.
FetchFailed(k) ==
    LET f == top_log[k].fetch IN
    \/ f.error \in {"Timeout", "RequestException"}
    \/ f.status_code # 200
    \/ f.extraction # "value"
    \/ f.found = 0

\* C12: for every offer handled whose link has an id, a failed fetch gives an
\* analysis of status unknown, made by the analyzer (its message is that of a
\* missing history), on a record that is in the list; a fetch that succeeds
\* gives the analysis of its own snapshots, whatever happened to the fetches
\* of the other offers; and the loop handles each of the first top_n offers.
C12_FailedFetchDegradesOneOffer ==
    /\ Len(top_log) = Len(featured)
    /\ top_pc = "done" => Len(featured) = Min2(top_n, Len(offers_at_call))
    /\ \A k \in 1..Len(top_log) :
          top_log[k].mla_id # <<>> =>
             /\ featured[k].link = offers_at_call[k].link
             /\ FetchFailed(k) =>
                   /\ featured[k].price_analysis.status = "unknown"
                   /\ featured[k].price_analysis.message = "Sin historial"
             /\ ~FetchFailed(k) =>
                   /\ top_log[k].result.returned = "list"
                   /\ Len(top_log[k].result.snapshots) = top_log[k].fetch.found
                   /\ featured[k].price_analysis.stats.has_stats
                   /\ featured[k].price_analysis =
                         analyze_price_history(TRUE, top_log[k].result.snapshots,
                                               offers_at_call[k].price)

\* Three offers handled: the fetch of the first timed out, the fetch of the
\* second succeeded and its analysis has statistics, the third was limited
\* (429).
C12_Witness ==
    /\ top_pc = "done"
    /\ Len(featured) = 3
    /\ top_log[1].fetch.error = "Timeout"
    /\ featured[1].price_analysis.status = "unknown"
    /\ ~FetchFailed(2)
    /\ featured[2].price_analysis.status \in {"excellent", "normal"}
    /\ top_log[3].mla_id # <<>>
    /\ top_log[3].fetch.status_code = 429
    /\ featured[3].price_analysis.status = "unknown"

\* The keys of an offer as it was passed.
OfferKeys == {"link", "discount", "price"}

\* C19: the list returned holds a record for each of the first top_n offers
\* passed, and no more; the i-th record has the fields of the i-th offer, with
\* their values, and a price_analysis, of status unknown when the link has no
\* id; the list passed and its records are as they were when passed.
C19_TopRecordsAreCopies ==
    /\ top_pc = "done" => Len(featured) = Min2(top_n, Len(offers_at_call))
    /\ Len(featured) <= Min2(top_n, Len(offers_at_call))
    /\ \A i \in 1..Len(featured) :
          /\ \A key \in OfferKeys : featured[i][key] = offers_at_call[i][key]
          /\ "price_analysis" \in DOMAIN featured[i]
          /\ featured[i].price_analysis.status
                \in {"unknown", "excellent", "good", "suspicious", "normal"}
          /\ featured[i].link = <<"p", "/", "M", "L", "A">> =>
                featured[i].price_analysis.status = "unknown"
    /\ \A i, j \in 1..Len(featured) :
          i < j => featured[i].discount >= featured[j].discount
    /\ top_offers = offers_at_call
    /\ \A i \in 1..Len(top_offers) : DOMAIN top_offers[i] = OfferKeys

\* Four offers were passed and three records returned; one of them is for
\* the link without an id, another has an analysis with statistics.
C19_Witness ==
    /\ top_pc = "done"
    /\ Len(offers_at_call) = 4
    /\ Len(featured) = 3
    /\ \E i \in 1..3 : /\ featured[i].link = <<"p", "/", "M", "L", "A">>
                       /\ featured[i].price_analysis.message = "ID no encontrado"
    /\ \E i \in 1..3 : featured[i].price_analysis.stats.has_stats

(***************************************************************************)
(* Claims about main (checked under SpecMainFair)                          *)
(***************************************************************************)
\* What the report is made of when units have failed: no featured offers
\* from a failed featured fetch, the offers of the pages that did not fail,
\* and a record with an analysis for each of the first top_n of them.
ReportFromWhatWasObtained ==
    main_pc = "report" =>
       /\ (mt_result.error # "none" \/ mt_result.status_code # 200) =>
             mt_result.offers = <<>>
       /\ \A l \in FetchedLinks :
             \E k \in 1..Len(all_offers) : all_offers[k].link = l
       /\ Len(featured) = Min2(top_n, Len(all_offers))
       /\ \A k \in 1..Len(featured) :
             /\ featured[k].link = all_offers[k].link
             /\ FetchFailed(k) => featured[k].price_analysis.status = "unknown"

\* C13: whatever fails in the featured fetch, the page fetches and the
\* history fetches, the run comes to the writing of the report, and the
\* report is made of what was obtained.
C13_RunReachesReport ==
    /\ <>(main_pc = "report")
    /\ []ReportFromWhatWasObtained

\* The report is written after the featured fetch timed out, two pages were
\* skipped and the history fetch of an offer failed.
C13_Witness ==
    /\ main_pc = "report"
    /\ mt_result.error = "Timeout"
    /\ skipped >= 2
    /\ Len(featured) = 2
    /\ \E k \in 1..2 : top_log[k].mla_id # <<>> /\ top_log[k].fetch.error = "Timeout"

=============================================================================
